---- MODULE Spec2Model ----
(***************************************************************************)
(* Model of src/queue_multithread.py: DataGenerator.generate_data spawns   *)
(* num_threads worker threads, each of which builds                        *)
(* num_records // num_threads records field by field from the shared      *)
(* module-level random source and puts them on one queue.Queue; the       *)
(* caller joins the threads in start order, then drains the queue.        *)
(* generate_data may be called more than once on one DataGenerator, also   *)
(* from two caller threads at a time: every variable that is local to a    *)
(* call is a function of the call.                                         *)
(***************************************************************************)
EXTENDS Integers, Sequences, FiniteSets, Bags, TLC

\* Bounds of the model.
MaxThreads == 2
MaxRecords == 4
RngPeriod == 2
MaxFail == 3
MaxOverlapRecords == 1

VARIABLES num_threads, num_records, ncalls, pc, threads, joined, data_queue,
          data, outcome, wpc, wi, wdata, pushed, rng, calls, failAt, seed

vars == <<num_threads, num_records, ncalls, pc, threads, joined, data_queue,
          data, outcome, wpc, wi, wdata, pushed, rng, calls, failAt, seed>>

coordVars == <<pc, threads, joined, data, outcome>>
workerVars == <<wpc, wi, wdata, pushed>>
inputVars == <<num_threads, num_records, ncalls, failAt, seed>>

\* The calls of generate_data made on the one DataGenerator, one per caller
\* thread.
Calls == 1..ncalls

\* Thread identities: the k-th thread started by a call is k.
Workers == 1..MaxThreads

names == <<"Alice", "Bob", "Charlie", "David", "Eve">>
cities == <<"New York", "Los Angeles", "Chicago", "Houston", "Miami">>

\* The empty dict a worker starts each record from.
NoData == [k \in {} |-> 0]

\* Positions at which a thread has ended (normally, or by an uncaught
\* exception): Thread.join returns for both.
Terminated == {"finished", "failed"}

(***************************************************************************)
(* The module-level random source: one hidden generator shared by every    *)
(* thread.  Its state is a position in a cyclic bit stream of period       *)
(* RngPeriod whose starting position (the seed) is unknown; every draw     *)
(* advances it.  A draw below n yields the low or the high end of 0..n-1   *)
(* by the current bit, so both ends of every range are drawn.              *)
(***************************************************************************)
rngNext(s) == (s + 1) % RngPeriod

randbelow(s, n) == IF s % 2 = 0 THEN 0 ELSE n - 1

\* randint with the upper end counted one too far.
randint_PastUpper(s, a, b) == a + randbelow(s, b - a + 2)

\* random.randint(a, b): a <= result <= b
randint(s, a, b) == a + randbelow(s, b - a + 1)

\* random.choice(seq)
choice(s, seq) == seq[randbelow(s, Len(seq)) + 1]

_generate_name(s) == choice(s, names)

_generate_city(s) == choice(s, cities)

\* Every worker is given the whole total instead of its share.
record_count_Unsplit == num_records

\* The dict one worker builds from four consecutive draws that start at
\* stream position s.
RecordAt(s) ==
    [name |-> _generate_name(s),
     age |-> randint(rngNext(s), 20, 50),
     city |-> _generate_city(rngNext(rngNext(s))),
     salary |-> randint(rngNext(rngNext(rngNext(s))), 30000, 100000)]

\* The share of one worker: self.num_records // self.num_threads, evaluated
\* in a worker, so num_threads >= 1 (floor division).
record_count == num_records \div num_threads

\* One queue object kept on the generator and used by every call.
QueueOf_Shared(c) == 1

\* The queue.Queue() object a call creates and binds to its local
\* data_queue; data_queue[q] is the content of object q.
QueueOf(c) == c

\* The state in which no call has been made yet.
NoCallYet ==
    /\ pc = [c \in Calls |-> "IDLE"]
    /\ threads = [c \in Calls |-> <<>>]
    /\ joined = [c \in Calls |-> 0]
    /\ data_queue = [q \in Calls |-> <<>>]
    /\ data = [c \in Calls |-> <<>>]
    /\ outcome = [c \in Calls |-> "pending"]
    /\ wpc = [c \in Calls |-> [w \in Workers |-> "unstarted"]]
    /\ wi = [c \in Calls |-> [w \in Workers |-> 0]]
    /\ wdata = [c \in Calls |-> [w \in Workers |-> NoData]]
    /\ pushed = [c \in Calls |-> [w \in Workers |-> <<>>]]
    /\ rng \in 0..(RngPeriod - 1)
    /\ seed = rng
    /\ calls = 0

(***************************************************************************)
(* DataGenerator.__init__ stores its arguments unchecked.  main() makes    *)
(* one call of generate_data.                                              *)
(***************************************************************************)
Init ==
    /\ num_threads \in (0 - 1)..MaxThreads
    /\ num_records \in (0 - 1)..MaxRecords
    /\ ncalls = 1
    /\ failAt = 0
    /\ NoCallYet

\* generate_data is entered: the queue and the thread list are created.
Call(c) ==
    /\ pc[c] = "IDLE"
    /\ pc' = [pc EXCEPT ![c] = "SPAWNING"]
    /\ data_queue' = [data_queue EXCEPT ![QueueOf(c)] = <<>>]
    /\ threads' = [threads EXCEPT ![c] = <<>>]
    /\ UNCHANGED <<joined, data, outcome, workerVars, rng, calls, inputVars>>

\* One iteration of the start loop: thread.start(); threads.append(thread)
Spawn(c) ==
    /\ pc[c] = "SPAWNING"
    /\ Len(threads[c]) < num_threads
    /\ LET w == Len(threads[c]) + 1 IN
        /\ wpc' = [wpc EXCEPT ![c][w] = "loop"]
        /\ threads' = [threads EXCEPT ![c] = Append(@, w)]
    /\ UNCHANGED <<pc, joined, data_queue, data, outcome, wi, wdata, pushed,
                   rng, calls, inputVars>>

\* The start loop left before every thread is started.
SpawnDone_Early(c) ==
    /\ pc[c] = "SPAWNING"
    /\ pc' = [pc EXCEPT ![c] = "RUNNING"]
    /\ UNCHANGED <<threads, joined, data_queue, data, outcome, workerVars,
                   rng, calls, inputVars>>

\* range(self.num_threads) is exhausted (at once when num_threads <= 0).
SpawnDone(c) ==
    /\ pc[c] = "SPAWNING"
    /\ Len(threads[c]) >= num_threads
    /\ pc' = [pc EXCEPT ![c] = "RUNNING"]
    /\ UNCHANGED <<threads, joined, data_queue, data, outcome, workerVars,
                   rng, calls, inputVars>>

\* The join loop is entered.
JoinBegin(c) ==
    /\ pc[c] = "RUNNING"
    /\ pc' = [pc EXCEPT ![c] = "JOINING"]
    /\ joined' = [joined EXCEPT ![c] = 0]
    /\ UNCHANGED <<threads, data_queue, data, outcome, workerVars, rng,
                   calls, inputVars>>

\* A join that returns without waiting for the thread.
JoinReady_NoWait(c, w) == TRUE

JoinReady(c, w) == wpc[c][w] \in Terminated

\* thread.join() returns once that thread has ended.
Join(c) ==
    /\ pc[c] = "JOINING"
    /\ joined[c] < Len(threads[c])
    /\ JoinReady(c, threads[c][joined[c] + 1])
    /\ joined' = [joined EXCEPT ![c] = @ + 1]
    /\ UNCHANGED <<pc, threads, data_queue, data, outcome, workerVars, rng,
                   calls, inputVars>>

\* The join loop is exhausted; data = []
JoinDone(c) ==
    /\ pc[c] = "JOINING"
    /\ joined[c] = Len(threads[c])
    /\ pc' = [pc EXCEPT ![c] = "DRAINING"]
    /\ data' = [data EXCEPT ![c] = <<>>]
    /\ UNCHANGED <<threads, joined, data_queue, outcome, workerVars, rng,
                   calls, inputVars>>

\* A drain that takes the newest item first.
Drain_Lifo(c) ==
    /\ pc[c] = "DRAINING"
    /\ data_queue[QueueOf(c)] # <<>>
    /\ LET q == data_queue[QueueOf(c)] IN
        /\ data' = [data EXCEPT ![c] = Append(@, q[Len(q)])]
        /\ data_queue' = [data_queue EXCEPT
                            ![QueueOf(c)] = SubSeq(q, 1, Len(q) - 1)]
    /\ UNCHANGED <<pc, threads, joined, outcome, workerVars, rng, calls,
                   inputVars>>

\* while not data_queue.empty(): data.append(data_queue.get())
Drain(c) ==
    /\ pc[c] = "DRAINING"
    /\ data_queue[QueueOf(c)] # <<>>
    /\ data' = [data EXCEPT ![c] = Append(@, Head(data_queue[QueueOf(c)]))]
    /\ data_queue' = [data_queue EXCEPT ![QueueOf(c)] = Tail(@)]
    /\ UNCHANGED <<pc, threads, joined, outcome, workerVars, rng, calls,
                   inputVars>>

\* A drain that waits in get() for one more item instead of testing empty().
Return_GetBlocks(c) ==
    /\ pc[c] = "DRAINING"
    /\ data_queue[QueueOf(c)] # <<>>
    /\ pc' = [pc EXCEPT ![c] = "DONE"]
    /\ outcome' = [outcome EXCEPT ![c] = "data"]
    /\ UNCHANGED <<threads, joined, data_queue, data, workerVars, rng, calls,
                   inputVars>>

\* The queue is empty: return data
Return(c) ==
    /\ pc[c] = "DRAINING"
    /\ data_queue[QueueOf(c)] = <<>>
    /\ pc' = [pc EXCEPT ![c] = "DONE"]
    /\ outcome' = [outcome EXCEPT ![c] = "data"]
    /\ UNCHANGED <<threads, joined, data_queue, data, workerVars, rng, calls,
                   inputVars>>

(***************************************************************************)
(* _generate_worker, one bytecode-level step at a time: the interpreter    *)
(* may switch threads between any two of them.                             *)
(***************************************************************************)
\* The loop bound taken inclusively.
LoopTest_OffByOne(i) == IF i <= record_count THEN "name" ELSE "finished"

\* The loop test after i completed iterations: the body is entered while
\* range(self.num_records // self.num_threads) is not exhausted.
LoopTest(i) == IF i < record_count THEN "name" ELSE "finished"

\* The thread starts to run: for _ in range(...) is entered.
WLoop(c, w) ==
    /\ wpc[c][w] = "loop"
    /\ wpc' = [wpc EXCEPT ![c][w] = LoopTest(wi[c][w])]
    /\ UNCHANGED <<coordVars, data_queue, wi, wdata, pushed, rng, calls,
                   inputVars>>

\* 'name': self._generate_name()
WName(c, w) ==
    /\ wpc[c][w] = "name"
    /\ calls + 1 # failAt
    /\ calls' = calls + 1
    /\ wdata' = [wdata EXCEPT ![c][w] = "name" :> _generate_name(rng)]
    /\ rng' = rngNext(rng)
    /\ wpc' = [wpc EXCEPT ![c][w] = "age"]
    /\ UNCHANGED <<coordVars, data_queue, wi, pushed, inputVars>>

\* 'age': random.randint(20, 50)
WAge(c, w) ==
    /\ wpc[c][w] = "age"
    /\ wdata' = [wdata EXCEPT ![c][w] = @ @@ ("age" :> randint(rng, 20, 50))]
    /\ rng' = rngNext(rng)
    /\ wpc' = [wpc EXCEPT ![c][w] = "city"]
    /\ UNCHANGED <<coordVars, data_queue, wi, pushed, calls, inputVars>>

\* 'city': self._generate_city()
WCity(c, w) ==
    /\ wpc[c][w] = "city"
    /\ wdata' = [wdata EXCEPT ![c][w] = @ @@ ("city" :> _generate_city(rng))]
    /\ rng' = rngNext(rng)
    /\ wpc' = [wpc EXCEPT ![c][w] = "salary"]
    /\ UNCHANGED <<coordVars, data_queue, wi, pushed, calls, inputVars>>

\* 'salary': random.randint(30000, 100000)
WSalary(c, w) ==
    /\ wpc[c][w] = "salary"
    /\ wdata' = [wdata EXCEPT
                   ![c][w] = @ @@ ("salary" :> randint(rng, 30000, 100000))]
    /\ rng' = rngNext(rng)
    /\ wpc' = [wpc EXCEPT ![c][w] = "put"]
    /\ UNCHANGED <<coordVars, data_queue, wi, pushed, calls, inputVars>>

\* An unlocked put: the item lands in the slot of the last one queued.
put_Unlocked(q, item) ==
    IF q = <<>> THEN <<item>> ELSE [q EXCEPT ![Len(q)] = item]

\* queue.Queue.put appends under the queue's mutex.
put(q, item) == Append(q, item)

\* data_queue.put(data), on the queue object the thread was handed, and the
\* step of the loop that follows it
WPut(c, w) ==
    /\ wpc[c][w] = "put"
    /\ data_queue' = [data_queue EXCEPT
                        ![QueueOf(c)] = put(@, wdata[c][w])]
    /\ pushed' = [pushed EXCEPT ![c][w] = Append(@, wdata[c][w])]
    /\ wi' = [wi EXCEPT ![c][w] = @ + 1]
    /\ wdata' = [wdata EXCEPT ![c][w] = NoData]
    /\ wpc' = [wpc EXCEPT ![c][w] = LoopTest(wi[c][w] + 1)]
    /\ UNCHANGED <<coordVars, rng, calls, inputVars>>

\* The record factory raises on its failAt-th call: nothing in
\* _generate_worker catches it, so the thread ends there and the records it
\* has put stay on the queue.
WFault(c, w) ==
    /\ wpc[c][w] = "name"
    /\ calls + 1 = failAt
    /\ calls' = calls + 1
    /\ wpc' = [wpc EXCEPT ![c][w] = "failed"]
    /\ UNCHANGED <<coordVars, data_queue, wi, wdata, pushed, rng, inputVars>>

Next ==
    \/ \E c \in Calls : Call(c)
    \/ \E c \in Calls : Spawn(c)
    \/ \E c \in Calls : SpawnDone(c)
    \/ \E c \in Calls : JoinBegin(c)
    \/ \E c \in Calls : Join(c)
    \/ \E c \in Calls : JoinDone(c)
    \/ \E c \in Calls : Drain(c)
    \/ \E c \in Calls : Return(c)
    \/ \E c \in Calls, w \in Workers : WLoop(c, w)
    \/ \E c \in Calls, w \in Workers : WName(c, w)
    \/ \E c \in Calls, w \in Workers : WAge(c, w)
    \/ \E c \in Calls, w \in Workers : WCity(c, w)
    \/ \E c \in Calls, w \in Workers : WSalary(c, w)
    \/ \E c \in Calls, w \in Workers : WPut(c, w)

Spec == Init /\ [][Next]_vars

\* Termination is checked from one seed: no thread's control flow reads a
\* drawn value.
LiveInit == Init /\ seed = 0

\* The interpreter keeps running some runnable thread: a thread that can take
\* a step is not held back for ever.
LiveSpec == LiveInit /\ [][Next]_vars /\ WF_vars(Next)

\* The same program run with a record factory that raises on one of its
\* calls.
FaultInit ==
    /\ num_threads \in (0 - 1)..MaxThreads
    /\ num_records \in (0 - 1)..MaxRecords
    /\ ncalls = 1
    /\ failAt \in 1..MaxFail
    /\ NoCallYet

FaultNext ==
    \/ Next
    \/ \E c \in Calls, w \in Workers : WFault(c, w)

FaultSpec == FaultInit /\ [][FaultNext]_vars

\* Two caller threads call generate_data on one DataGenerator with one
\* worker per call; the calls may overlap in any way or follow each other.
OverlapInit ==
    /\ num_threads = 1
    /\ num_records \in 0..MaxOverlapRecords
    /\ ncalls = 2
    /\ failAt = 0
    /\ NoCallYet

OverlapSpec == OverlapInit /\ [][Next]_vars

(***************************************************************************)
(* Helpers for stating the properties.                                     *)
(***************************************************************************)
Started(c) == {threads[c][i] : i \in 1..Len(threads[c])}

SeqToBag(s) ==
    LET R == {s[i] : i \in 1..Len(s)}
    IN  [x \in R |-> Cardinality({i \in 1..Len(s) : s[i] = x})]

RECURSIVE PushedBag(_, _)
PushedBag(c, n) == IF n = 0 THEN SeqToBag(<<>>)
                   ELSE PushedBag(c, n - 1) (+) SeqToBag(pushed[c][n])

\* The records pushed by the workers of call c.
AllPushed(c) == PushedBag(c, MaxThreads)

\* The content of the queue of call c.
Queue(c) == data_queue[QueueOf(c)]

SomeFailed(c) == \E w \in Workers : wpc[c][w] = "failed"

ValidInput == num_threads >= 1 /\ num_records >= 0

C2_NoLossNoDup ==
    \A c \in Calls :
        /\ pc[c] # "IDLE" =>
              SeqToBag(data[c]) (+) SeqToBag(Queue(c)) = AllPushed(c)
        /\ pc[c] = "DONE" => SeqToBag(data[c]) = AllPushed(c)

\* Two workers have both pushed twice and the call has returned.
C2_Witness ==
    /\ pc[1] = "DONE"
    /\ Len(pushed[1][1]) = 2
    /\ Len(pushed[1][2]) = 2
    /\ Len(data[1]) = 4

\* C3: generate_data with worker_count <= 0 fails with InvalidConfiguration
\* and never returns a record sequence as a success.
C3_RejectsNonPositiveWorkers ==
    num_threads <= 0 =>
        \A c \in Calls :
            /\ outcome[c] # "data"
            /\ pc[c] = "DONE" => outcome[c] = "InvalidConfiguration"

\* C4: a negative total_records is rejected before any worker is spawned: no
\* worker is ever started and the call never returns a sequence.
C4_RejectsNegativeRecords ==
    num_records < 0 =>
        \A c \in Calls :
            /\ threads[c] = <<>>
            /\ \A w \in Workers : wpc[c][w] = "unstarted"
            /\ outcome[c] # "data"

\* C5: when record generation fails in some worker, generate_data does not
\* return a sequence as a success: it ends in GenerationFailure and the
\* records already pushed are discarded.
C5_AllOrNothing ==
    \A c \in Calls :
        SomeFailed(c) =>
            /\ outcome[c] # "data"
            /\ pc[c] = "DONE" =>
                  outcome[c] = "GenerationFailure" /\ data[c] = <<>>

\* C6: the drain starts only from the join loop, only after every spawned
\* worker has ended and has been joined, it starts once, and no push happens
\* at or after its start.
C6_BarrierBeforeDrain ==
    /\ [](\A c \in Calls :
            pc[c] \in {"DRAINING", "DONE"} =>
                /\ Len(threads[c]) = (IF num_threads > 0 THEN num_threads ELSE 0)
                /\ joined[c] = Len(threads[c])
                /\ \A w \in Started(c) : wpc[c][w] \in Terminated)
    /\ [][\A c \in Calls :
            pc[c] \in {"DRAINING", "DONE"} => pushed'[c] = pushed[c]]_vars
    /\ [][\A c \in Calls :
            pc'[c] = "DRAINING" /\ pc[c] # "DRAINING" => pc[c] = "JOINING"]_vars
    /\ [][\A c \in Calls :
            pc[c] = "DRAINING" => pc'[c] \in {"DRAINING", "DONE"}]_vars
    /\ [][\A c \in Calls : pc[c] = "DONE" => pc'[c] = "DONE"]_vars

\* The drain is under way after two workers pushed.
C6_Witness ==
    /\ pc[1] = "DRAINING"
    /\ Len(threads[1]) = 2
    /\ Len(pushed[1][1]) >= 1
    /\ Len(pushed[1][2]) >= 1
    /\ Len(data[1]) >= 1
    /\ Queue(1) # <<>>

\* C7: when some worker fails, every spawned worker has ended by the time
\* generate_data returns or raises, and the outcome it reports is that
\* GenerationFailure.
C7_JoinAllThenReportFailure ==
    \A c \in Calls :
        (pc[c] = "DONE" /\ SomeFailed(c)) =>
            /\ \A w \in Started(c) : wpc[c][w] \in Terminated
            /\ outcome[c] = "GenerationFailure"

WellFormed(r) ==
    /\ DOMAIN r = {"name", "age", "city", "salary"}
    /\ r["name"] \in {"Alice", "Bob", "Charlie", "David", "Eve"}
    /\ r["city"] \in {"New York", "Los Angeles", "Chicago", "Houston", "Miami"}
    /\ r["age"] \in 20..50
    /\ r["salary"] \in 30000..100000

\* C9: every record on the queue and in the returned sequence has exactly
\* the fields name, age, city, salary, with age in [20, 50], salary in
\* [30000, 100000], and name and city among the five fixed names and cities.
C9_RecordsWellFormed ==
    \A c \in Calls :
        /\ \A i \in 1..Len(Queue(c)) : WellFormed(Queue(c)[i])
        /\ \A i \in 1..Len(data[c]) : WellFormed(data[c][i])

\* The returned sequence holds records at both ends of the age and salary
\* ranges.
C9_Witness ==
    /\ pc[1] = "DONE"
    /\ \E i, j \in 1..Len(data[1]) :
        /\ data[1][i]["age"] = 50
        /\ data[1][j]["age"] = 20
        /\ data[1][i]["salary"] = 100000
        /\ data[1][j]["salary"] = 30000

Order == <<"IDLE", "SPAWNING", "RUNNING", "JOINING", "DRAINING", "DONE">>

\* C10: the coordinator only steps from one state to the next of IDLE,
\* SPAWNING, RUNNING, JOINING, DRAINING, DONE: every worker is started
\* before the first join, every join is complete before the drain, the
\* result is returned only after the drain, and FAILED is entered only from
\* RUNNING or JOINING and only after a worker has failed.
C10_StateOrder ==
    /\ [][\A c \in Calls :
            pc'[c] # pc[c] =>
                \/ \E k \in 1..(Len(Order) - 1) :
                      pc[c] = Order[k] /\ pc'[c] = Order[k + 1]
                \/ /\ pc'[c] = "FAILED"
                   /\ pc[c] \in {"RUNNING", "JOINING"}
                   /\ SomeFailed(c)]_vars
    /\ [][\A c \in Calls : pc[c] = "FAILED" => pc'[c] = "FAILED"]_vars
    /\ [](\A c \in Calls :
            pc[c] \in {"RUNNING", "JOINING", "DRAINING", "DONE"} =>
                Len(threads[c]) = (IF num_threads > 0 THEN num_threads ELSE 0))
    /\ [](\A c \in Calls :
            pc[c] \in {"IDLE", "SPAWNING", "RUNNING"} => joined[c] = 0)
    /\ [](\A c \in Calls :
            pc[c] \in {"DRAINING", "DONE"} => joined[c] = Len(threads[c]))
    /\ [](\A c \in Calls : outcome[c] = "data" <=> pc[c] = "DONE")
    /\ [](\A c \in Calls : pc[c] = "DONE" => Queue(c) = <<>>)

\* The call has returned after a worker failed and another one completed.
C10_Witness ==
    /\ pc[1] = "DONE"
    /\ SomeFailed(1)
    /\ \E w \in Workers : wpc[1][w] = "finished" /\ Len(pushed[1][w]) >= 1

\* The records of a run in which no two workers' draws interleave: the
\* k-th record is built from the draws 4k .. 4k+3 of the stream.
RECURSIVE SerialRun(_, _)
SerialRun(s, n) ==
    IF n = 0 THEN <<>>
    ELSE <<RecordAt(s)>> \o SerialRun(rngNext(rngNext(rngNext(rngNext(s)))), n - 1)

\* C11: two calls with the same seeded random source and the same
\* (worker_count, total_records) return the same multiset of records
\* whatever the interleaving: every call returns the multiset its
\* uninterleaved run from that seed returns.
C11_SameSeedSameMultiset ==
    (pc[1] = "DONE" /\ ValidInput) =>
        SeqToBag(data[1]) = SeqToBag(SerialRun(seed, Len(data[1])))

\* C12: for worker_count >= 1 and total_records >= 0, under fair scheduling
\* every worker finishes, every join completes, the drain ends on the empty
\* queue and generate_data reaches DONE: no put, join or get blocks for ever.
C12_Terminates ==
    ValidInput ~>
        (/\ pc[1] = "DONE"
         /\ joined[1] = Len(threads[1])
         /\ Queue(1) = <<>>
         /\ \A w \in Started(1) : wpc[1][w] = "finished")

\* A call with two workers and an odd total has returned with both workers
\* finished.
C12_Witness ==
    /\ pc[1] = "DONE"
    /\ num_threads = 2
    /\ num_records = 3
    /\ joined[1] = 2
    /\ \A w \in {1, 2} : wpc[1][w] = "finished"

\* d is an interleaving of the sequences seqs[w] that keeps the order of
\* each of them.
RECURSIVE IsMerge(_, _)
IsMerge(d, seqs) ==
    IF d = <<>> THEN \A w \in DOMAIN seqs : seqs[w] = <<>>
    ELSE \E w \in DOMAIN seqs :
            /\ seqs[w] # <<>>
            /\ Head(seqs[w]) = Head(d)
            /\ IsMerge(Tail(d), [seqs EXCEPT ![w] = Tail(@)])

\* C13: the records drained so far followed by those still queued, and at
\* the end the returned sequence, are an interleaving of the workers' push
\* sequences that keeps each worker's records in the order it pushed them.
C13_ArrivalOrder ==
    \A c \in Calls :
        /\ pc[c] # "IDLE" => IsMerge(data[c] \o Queue(c), pushed[c])
        /\ pc[c] = "DONE" => IsMerge(data[c], pushed[c])

\* Two workers each pushed two different records, and the result starts
\* with a record of the second worker.
C13_Witness ==
    /\ pc[1] = "DONE"
    /\ Len(data[1]) = 4
    /\ \A w \in {1, 2} :
          Len(pushed[1][w]) = 2 /\ pushed[1][w][1] # pushed[1][w][2]
    /\ data[1][1] = pushed[1][2][1]
    /\ data[1][1] # pushed[1][1][1]

\* A worker that failed stays failed and pushes nothing more, and when the
\* call ends every other worker has pushed its full share and finished.
FaultStopsOnlyItsWorker ==
    /\ [][\A c \in Calls, w \in Workers :
            wpc[c][w] = "failed" =>
                wpc'[c][w] = "failed" /\ pushed'[c][w] = pushed[c][w]]_vars
    /\ [](\A c \in Calls :
            (pc[c] = "DONE" /\ ValidInput) =>
                \A w \in Started(c) :
                    wpc[c][w] # "failed" =>
                        wpc[c][w] = "finished" /\ Len(pushed[c][w]) = record_count)

\* C14: a worker whose generation step faults pushes no further record and
\* surfaces a GenerationFailure to the coordinator, which ends the call with
\* it; the other workers still push their full record_count and finish.
C14_FaultSurfacesAndStopsOnlyItsWorker ==
    /\ FaultStopsOnlyItsWorker
    /\ [](\A c \in Calls :
            (/\ SomeFailed(c)
             /\ joined[c] = Len(threads[c])
             /\ pc[c] \in {"DRAINING", "DONE"}) =>
                outcome[c] = "GenerationFailure")

\* C15: every call has a queue of its own, which only its own workers put
\* on and only its own drain takes from: for two calls on one DataGenerator,
\* overlapping or one after the other, what a call has drained and what is
\* on its queue are together the records pushed by its own workers, its
\* result is exactly those records, and its queue is empty once it returned.
C15_CallsIsolated ==
    /\ \A c, d \in Calls : c # d => QueueOf(c) # QueueOf(d)
    /\ \A c \in Calls :
        /\ pc[c] # "IDLE" =>
              SeqToBag(data[c]) (+) SeqToBag(Queue(c)) = AllPushed(c)
        /\ pc[c] = "DONE" =>
              /\ SeqToBag(data[c]) = AllPushed(c)
              /\ Len(data[c]) = record_count * num_threads
              /\ Queue(c) = <<>>

\* The two calls overlap: the first is draining its queue, which still holds
\* a record, while the worker of the second is about to put one.
C15_Witness ==
    /\ pc[1] = "DRAINING"
    /\ Queue(1) # <<>>
    /\ pc[2] \in {"RUNNING", "JOINING"}
    /\ wpc[2][1] = "put"

====
